---- MODULE Spec2Model ----
(***************************************************************************)
(* Model of engine/fitter.py: the Fitter training-loop driver.             *)
(*                                                                         *)
(* Scores are counted in twentieths (0.1 = 2, 0.25 = 5, 0.3 = 6),          *)
(* thresholds in hundredths (0.5 = 50).  Learning rates are exact          *)
(* rationals <<numerator, denominator>> in lowest terms.                   *)
(***************************************************************************)
EXTENDS Integers, Sequences, FiniteSets, TLC

\* ------------------------------------------------------------------ bounds
MaxEpochs == 5
MaxPatience == 1
MaxLoss == 2
MaxRuns == 2
MaxCalls == 2

\* --------------------------------------------------- sample input values
Scores == {0, 2, 4, 5, 6}
Thresholds == {40, 50}
WarmupChoices == {0, 2, 5}
BaseLrChoices == {<<1, 100>>}
SchedLrChoices == {<<1, 100>>, <<1, 200>>}
TrainBatchSizes == <<2, 1>>
NumParamGroups == 2
NumValBatches == 2
\* the validation scores 0.1, 0.3, 0.2, 0.25 of the documented example
ExampleScores == <<2, 6, 4, 5>>

\* Fitter.__init__ values
InitBestScore == 0
InitBestThreshold == 50

NoFile == [kind |-> "none"]
NoMeter == [sum |-> 0, count |-> 0, avg |-> <<0, 1>>]

VARIABLES
    config,                \* self.config (read-only)
    epoch,                 \* self.epoch
    best_final_score,      \* self.best_final_score
    best_score_threshold,  \* self.best_score_threshold
    early_stop_epochs,     \* self.early_stop_epochs
    do_scheduler,          \* self.do_scheduler
    all_predictions,       \* self.all_predictions
    lr,                    \* optimizer.param_groups[g]['lr']
    sched_steps,           \* scheduler state: number of scheduler.step() calls
    mode,                  \* model mode: "train" or "eval"
    files,                 \* files under OUTPUT_DIR
    pc,                    \* position of the caller / of fit
    loop_epoch,            \* fit's loop variable `epoch`
    summary_loss,          \* fit's / train_one_epoch's local summary_loss
    step,                  \* train_one_epoch's batch index
    val_score,             \* fit's local best_final_score
    val_threshold,         \* fit's local best_score_threshold
    epochs_run,            \* history: epochs this fit call has validated
    example_prefix,        \* history: leading epochs that follow ExampleScores
    stall,                 \* history: consecutive epochs that did not improve
    alt_counter,           \* history: the counter, had early_stop compared
                           \*   against the best held before validation
    wrote_preds,           \* history: this fitter has written the export
    start_epoch,           \* history: self.epoch when fit was entered
    ops,                   \* history: operations of the current epoch
    fed,                   \* history: (loss, batch_size) pairs of this pass
    prev_best,             \* history: self.best_final_score before validation
    prev_counter,          \* history: early_stop_epochs before early_stop
    ref,                   \* history: state of the run that was interrupted
    loaded,                \* history: the checkpoint this fitter loaded
    runs,                  \* number of Fitter objects constructed
    calls,                 \* number of fit calls on this Fitter
    exit                   \* how the last fit call returned

vars == <<config, epoch, best_final_score, best_score_threshold,
          early_stop_epochs, do_scheduler, all_predictions, lr, sched_steps,
          mode, files, pc, loop_epoch, summary_loss, step, val_score,
          val_threshold, epochs_run, example_prefix, stall, alt_counter,
          wrote_preds, start_epoch, ops, fed, prev_best, prev_counter, ref,
          loaded, runs, calls, exit>>

\* ------------------------------------------------------------- rationals
RECURSIVE Gcd(_, _)
Gcd(a, b) == IF b = 0 THEN a ELSE Gcd(b, a % b)

Rat(n, d) == LET g == Gcd(n, d) IN IF g = 0 THEN <<0, 1>> ELSE <<n \div g, d \div g>>
RatMul(a, b) == Rat(a[1] * b[1], a[2] * b[2])
RatLe(a, b) == a[1] * b[2] <= b[1] * a[2]
RatMin(a, b) == IF RatLe(a, b) THEN a ELSE b

\* ------------------------------------------------------------ AverageMeter
\* engine/average.py: AverageMeter() and AverageMeter.update(val, n)
AverageMeter == NoMeter
MeterUpdate(m, val, n) ==
    LET s == m.sum + val * n
        c == m.count + n
    IN [sum |-> s, count |-> c, avg |-> Rat(s, c)]

\* train_one_epoch, line 133
MeterFeedUnweighted(m, loss, batch_size) == MeterUpdate(m, loss, 1)
MeterFeed(m, loss, batch_size) == MeterUpdate(m, loss, batch_size)

\* ------------------------------------------------------------ pure pieces
\* fit, line 57
LrScaleFromZero(e, warmup) == RatMin(<<1, 1>>, Rat(e, warmup))
LrScale(e, warmup) == RatMin(<<1, 1>>, Rat(e + 1, warmup))
\* fit, line 59
WarmupLr(e, cfg) == RatMul(LrScale(e, cfg.WARMUP_EPOCHS), cfg.BASE_LR)
\* fit, line 80
ImprovedOrEqual(s, best) == s >= best
Improved(s, best) == s > best
\* early_stop, lines 183-187
EarlyStopCountNoReset(s, best, count) == IF s < best THEN count + 1 ELSE count
EarlyStopCountTies(s, best, count) == IF s <= best THEN count + 1 ELSE 0
EarlyStopCount(s, best, count) == IF s < best THEN count + 1 ELSE 0
\* fit, line 89
ShouldStopLate(count, patience) == count > patience + 1
ShouldStopAtPatience(count, patience) == count >= patience
ShouldStop(count, patience) == count > patience
\* save, lines 147-154: the record written when the fitter holds best
\* threshold thr and best score sc
CheckpointNextEpoch(thr, sc) ==
    [kind |-> "full",
     optimizer_state_dict |-> lr,
     scheduler_state_dict |-> sched_steps,
     best_score_threshold |-> thr,
     best_final_score |-> sc,
     epoch |-> epoch + 1]
Checkpoint(thr, sc) ==
    [kind |-> "full",
     optimizer_state_dict |-> lr,
     scheduler_state_dict |-> sched_steps,
     best_score_threshold |-> thr,
     best_final_score |-> sc,
     epoch |-> epoch]
\* save_model, lines 158-162
ModelSnapshot(thr, sc) ==
    [kind |-> "model",
     best_score_threshold |-> thr,
     best_final_score |-> sc]
\* load, line 175
ResumeSameEpoch(checkpoint) == checkpoint.epoch
ResumeEpoch(checkpoint) == checkpoint.epoch + 1

Configs ==
    [MAX_EPOCHS : {MaxEpochs},
     WARMUP_EPOCHS : WarmupChoices,
     EARLY_STOP_PATIENCE : 0..MaxPatience,
     BASE_LR : BaseLrChoices]

\* Fitter.__init__: the fields of a freshly constructed Fitter.  The
\* optimizer built by make_optimizer starts every group at BASE_LR and the
\* model starts in training mode.
FreshFitter ==
    /\ epoch' = 0
    /\ best_final_score' = InitBestScore
    /\ best_score_threshold' = InitBestThreshold
    /\ early_stop_epochs' = 0
    /\ do_scheduler' = TRUE
    /\ all_predictions' = <<>>
    /\ lr' = [g \in 1..NumParamGroups |-> config.BASE_LR]
    /\ sched_steps' = 0
    /\ mode' = "train"

InitFrom(configs) ==
    /\ config \in configs
    /\ epoch = 0
    /\ best_final_score = InitBestScore
    /\ best_score_threshold = InitBestThreshold
    /\ early_stop_epochs = 0
    /\ do_scheduler = TRUE
    /\ all_predictions = <<>>
    /\ lr = [g \in 1..NumParamGroups |-> config.BASE_LR]
    /\ sched_steps = 0
    /\ mode = "train"
    /\ files = [last |-> NoFile, best |-> NoFile, model |-> NoFile, preds |-> NoFile]
    /\ pc = "idle"
    /\ loop_epoch = 0
    /\ summary_loss = NoMeter
    /\ step = 0
    /\ val_score = 0
    /\ val_threshold = InitBestThreshold
    /\ epochs_run = 0
    /\ example_prefix = -1
    /\ stall = 0
    /\ alt_counter = 0
    /\ wrote_preds = FALSE
    /\ start_epoch = 0
    /\ ops = <<>>
    /\ fed = <<>>
    /\ prev_best = InitBestScore
    /\ prev_counter = 0
    /\ ref = [kind |-> "none"]
    /\ loaded = NoFile
    /\ runs = 1
    /\ calls = 0
    /\ exit = "none"

Init == InitFrom(Configs)

\* ---------------------------------------------------------------- actions
observers ==
    <<epochs_run, example_prefix, stall, alt_counter, wrote_preds, start_epoch>>

\* A fitter that has not trained, validated or loaded anything
IsFresh ==
    /\ epoch = 0
    /\ best_final_score = InitBestScore
    /\ early_stop_epochs = 0

\* A new process constructs a Fitter over the same OUTPUT_DIR, either after
\* fit returned or after the previous process was interrupted between two
\* epochs; the files written so far stay on disk.
Construct ==
    /\ runs < MaxRuns
    /\ \/ pc = "idle" /\ calls > 0 /\ ref' = [kind |-> "none"]
       \/ /\ pc = "loop"
          /\ epochs_run > 0
          /\ ref' = [kind |-> "run",
                     epoch |-> epoch,
                     best_final_score |-> best_final_score,
                     best_score_threshold |-> best_score_threshold,
                     early_stop_epochs |-> early_stop_epochs]
    /\ FreshFitter
    /\ pc' = "idle"
    /\ loop_epoch' = 0
    /\ summary_loss' = NoMeter
    /\ step' = 0
    /\ val_score' = 0
    /\ val_threshold' = InitBestThreshold
    /\ epochs_run' = 0
    /\ example_prefix' = -1
    /\ stall' = 0
    /\ alt_counter' = 0
    /\ wrote_preds' = FALSE
    /\ start_epoch' = 0
    /\ ops' = <<>>
    /\ fed' = <<>>
    /\ prev_best' = InitBestScore
    /\ prev_counter' = 0
    /\ loaded' = NoFile
    /\ runs' = runs + 1
    /\ calls' = 0
    /\ exit' = "none"
    /\ UNCHANGED <<config, files>>

\* load(path) of a full checkpoint, before the fitter's first fit
Load(path) ==
    /\ pc = "idle"
    /\ calls = 0
    /\ loaded = NoFile
    /\ files[path].kind = "full"
    /\ LET checkpoint == files[path] IN
         /\ lr' = checkpoint.optimizer_state_dict
         /\ sched_steps' = checkpoint.scheduler_state_dict
         /\ best_score_threshold' = checkpoint.best_score_threshold
         /\ best_final_score' = checkpoint.best_final_score
         /\ epoch' = ResumeEpoch(checkpoint)
    /\ loaded' = [files[path] EXCEPT !.kind = path]
    /\ UNCHANGED <<config, early_stop_epochs, do_scheduler, all_predictions,
                   mode, files, pc, loop_epoch, summary_loss, step, val_score,
                   val_threshold, observers, ops, fed, prev_best,
                   prev_counter, ref, runs, calls, exit>>

\* load, lines 169-171, of the snapshot written by save_model: the record
\* holds no 'optimizer_state_dict', so line 171 raises after the model
\* parameters were restored and before any field of the fitter is assigned
LoadSnapshotRestoresScores(path) ==
    /\ pc = "idle"
    /\ calls = 0
    /\ loaded = NoFile
    /\ files[path].kind = "model"
    /\ "optimizer_state_dict" \notin DOMAIN files[path]
    /\ best_score_threshold' = files[path].best_score_threshold
    /\ best_final_score' = files[path].best_final_score
    /\ exit' = "load_error"
    /\ UNCHANGED <<config, epoch, early_stop_epochs, do_scheduler,
                   all_predictions, lr, sched_steps, mode, files, pc,
                   loop_epoch, summary_loss, step, val_score, val_threshold,
                   observers, ops, fed, prev_best, prev_counter, ref, loaded,
                   runs, calls>>
LoadSnapshot(path) ==
    /\ pc = "idle"
    /\ calls = 0
    /\ loaded = NoFile
    /\ files[path].kind = "model"
    /\ "optimizer_state_dict" \notin DOMAIN files[path]
    /\ exit' = "load_error"
    /\ UNCHANGED <<config, epoch, best_final_score, best_score_threshold,
                   early_stop_epochs, do_scheduler, all_predictions, lr,
                   sched_steps, mode, files, pc, loop_epoch, summary_loss,
                   step, val_score, val_threshold, observers, ops, fed,
                   prev_best, prev_counter, ref, loaded, runs, calls>>

\* fit, line 55: range(self.epoch, MAX_EPOCHS) is evaluated once
FitEnterRestarts ==
    /\ pc = "idle"
    /\ calls < MaxCalls
    /\ loop_epoch' = 0
    /\ start_epoch' = epoch
    /\ epochs_run' = 0
    /\ example_prefix' = IF IsFresh THEN 0 ELSE -1
    /\ stall' = 0
    /\ ops' = <<>>
    /\ calls' = calls + 1
    /\ exit' = "none"
    /\ pc' = "loop"
    /\ UNCHANGED <<config, epoch, best_final_score, best_score_threshold,
                   early_stop_epochs, do_scheduler, all_predictions, lr,
                   sched_steps, mode, files, summary_loss, step, val_score,
                   val_threshold, alt_counter, wrote_preds, fed, prev_best,
                   prev_counter, ref, loaded, runs>>
FitEnter ==
    /\ pc = "idle"
    /\ calls < MaxCalls
    /\ loop_epoch' = epoch
    /\ start_epoch' = epoch
    /\ epochs_run' = 0
    /\ example_prefix' = IF IsFresh THEN 0 ELSE -1
    /\ stall' = 0
    /\ ops' = <<>>
    /\ calls' = calls + 1
    /\ exit' = "none"
    /\ pc' = "loop"
    /\ UNCHANGED <<config, epoch, best_final_score, best_score_threshold,
                   early_stop_epochs, do_scheduler, all_predictions, lr,
                   sched_steps, mode, files, summary_loss, step, val_score,
                   val_threshold, alt_counter, wrote_preds, fed, prev_best,
                   prev_counter, ref, loaded, runs>>

\* fit, line 55: the range is exhausted and fit returns
FitExhausted ==
    /\ pc = "loop"
    /\ loop_epoch >= config.MAX_EPOCHS
    /\ pc' = "idle"
    /\ exit' = "exhausted"
    /\ UNCHANGED <<config, epoch, best_final_score, best_score_threshold,
                   early_stop_epochs, do_scheduler, all_predictions, lr,
                   sched_steps, mode, files, loop_epoch, summary_loss, step,
                   val_score, val_threshold, observers, ops, fed, prev_best,
                   prev_counter, ref, loaded, runs, calls>>

\* fit, lines 56-62: warmup adjustment at the start of an epoch
EpochBegin ==
    /\ pc = "loop"
    /\ loop_epoch < config.MAX_EPOCHS
    /\ IF loop_epoch < config.WARMUP_EPOCHS
         THEN /\ lr' = [g \in 1..NumParamGroups |-> WarmupLr(loop_epoch, config)]
              /\ do_scheduler' = FALSE
         ELSE /\ do_scheduler' = TRUE
              /\ UNCHANGED lr
    /\ ops' = <<"lr">>
    /\ prev_best' = best_final_score
    /\ prev_counter' = early_stop_epochs
    /\ ref' = [kind |-> "none"]
    /\ pc' = "train"
    /\ UNCHANGED <<config, epoch, best_final_score, best_score_threshold,
                   early_stop_epochs, all_predictions, sched_steps, mode,
                   files, loop_epoch, summary_loss, step, val_score,
                   val_threshold, observers, fed, loaded, runs, calls, exit>>

\* train_one_epoch, lines 116-119
TrainBeginKeepsMode ==
    /\ pc = "train"
    /\ summary_loss' = AverageMeter
    /\ step' = 0
    /\ fed' = <<>>
    /\ ops' = Append(ops, "train")
    /\ pc' = "batch"
    /\ UNCHANGED <<config, epoch, best_final_score, best_score_threshold,
                   early_stop_epochs, do_scheduler, all_predictions, lr,
                   sched_steps, mode, files, loop_epoch, val_score,
                   val_threshold, observers, prev_best, prev_counter, ref,
                   loaded, runs, calls, exit>>
TrainBegin ==
    /\ pc = "train"
    /\ mode' = "train"
    /\ summary_loss' = AverageMeter
    /\ step' = 0
    /\ fed' = <<>>
    /\ ops' = Append(ops, "train")
    /\ pc' = "batch"
    /\ UNCHANGED <<config, epoch, best_final_score, best_score_threshold,
                   early_stop_epochs, do_scheduler, all_predictions, lr,
                   sched_steps, files, loop_epoch, val_score, val_threshold,
                   observers, prev_best, prev_counter, ref, loaded, runs,
                   calls, exit>>

\* train_one_epoch, lines 120-141: one batch
TrainStepAlwaysSched ==
    /\ pc = "batch"
    /\ step < Len(TrainBatchSizes)
    /\ LET batch_size == TrainBatchSizes[step + 1] IN
         \E loss \in 1..MaxLoss :
            /\ summary_loss' = MeterFeed(summary_loss, loss, batch_size)
            /\ fed' = Append(fed, <<loss, batch_size>>)
    /\ \E new \in SchedLrChoices : lr' = [g \in 1..NumParamGroups |-> new]
    /\ sched_steps' = sched_steps + 1
    /\ step' = step + 1
    /\ UNCHANGED <<config, epoch, best_final_score, best_score_threshold,
                   early_stop_epochs, do_scheduler, all_predictions, mode,
                   files, pc, loop_epoch, val_score, val_threshold, observers,
                   ops, prev_best, prev_counter, ref, loaded, runs, calls,
                   exit>>
TrainStep ==
    /\ pc = "batch"
    /\ step < Len(TrainBatchSizes)
    /\ LET batch_size == TrainBatchSizes[step + 1] IN
         \E loss \in 1..MaxLoss :
            /\ summary_loss' = MeterFeed(summary_loss, loss, batch_size)
            /\ fed' = Append(fed, <<loss, batch_size>>)
    /\ IF do_scheduler
         THEN /\ \E new \in SchedLrChoices :
                    lr' = [g \in 1..NumParamGroups |-> new]
              /\ sched_steps' = sched_steps + 1
         ELSE UNCHANGED <<lr, sched_steps>>
    /\ step' = step + 1
    /\ UNCHANGED <<config, epoch, best_final_score, best_score_threshold,
                   early_stop_epochs, do_scheduler, all_predictions, mode,
                   files, pc, loop_epoch, val_score, val_threshold, observers,
                   ops, prev_best, prev_counter, ref, loaded, runs, calls,
                   exit>>

\* train_one_epoch, line 143, and fit, lines 71-73: the training pass
\* returns (its frame, with summary_loss and step, is gone), fit logs the
\* average and saves the last checkpoint
SaveLast ==
    /\ pc = "batch"
    /\ step = Len(TrainBatchSizes)
    /\ mode' = "eval"
    /\ files' = [files EXCEPT
                   !.last = Checkpoint(best_score_threshold, best_final_score)]
    /\ summary_loss' = NoMeter
    /\ step' = 0
    /\ fed' = <<>>
    /\ ops' = Append(ops, "save_last")
    /\ pc' = "validate"
    /\ UNCHANGED <<config, epoch, best_final_score, best_score_threshold,
                   early_stop_epochs, do_scheduler, all_predictions, lr,
                   sched_steps, loop_epoch, val_score, val_threshold,
                   observers, prev_best, prev_counter, ref, loaded, runs,
                   calls, exit>>

\* validation, line 101
KeepPredictions(predictions) == predictions
ResetPredictions(predictions) == <<>>

\* validation, lines 105-108: the rows inference appends in one pass, one
\* per batch here; `score` is the score evaluate gives the whole pass
\* (-1: the pass was not completed)
ValidationRows(s) ==
    [b \in 1..NumValBatches |-> [epoch |-> epoch, batch |-> b, score |-> s]]

\* validation, lines 98-113, and fit, line 76
Validation ==
    /\ pc = "validate"
    /\ mode' = "eval"
    /\ \E s \in Scores, t \in Thresholds :
          /\ all_predictions' =
                ResetPredictions(all_predictions) \o ValidationRows(s)
          /\ val_score' = s
          /\ val_threshold' = t
          /\ example_prefix' =
                IF /\ example_prefix >= 0
                   /\ example_prefix < Len(ExampleScores)
                   /\ s = ExampleScores[example_prefix + 1]
                  THEN example_prefix + 1
                  ELSE -1
    /\ epochs_run' = epochs_run + 1
    /\ prev_best' = best_final_score
    /\ ops' = Append(ops, "validation")
    /\ pc' = "improve"
    /\ UNCHANGED <<config, epoch, best_final_score, best_score_threshold,
                   early_stop_epochs, do_scheduler, lr, sched_steps, files,
                   loop_epoch, summary_loss, step, stall, alt_counter,
                   wrote_preds, start_epoch, fed, prev_counter, ref, loaded,
                   runs, calls, exit>>

\* fit, lines 80-86
BestUpdateSaveFirst ==
    /\ pc = "improve"
    /\ IF Improved(val_score, best_final_score)
         THEN /\ best_final_score' = val_score
              /\ best_score_threshold' = val_threshold
              /\ mode' = "eval"
              /\ files' = [files EXCEPT
                             !.best = Checkpoint(best_score_threshold,
                                                best_final_score),
                             !.model = ModelSnapshot(val_threshold, val_score),
                             !.preds = [kind |-> "csv", rows |-> all_predictions]]
              /\ ops' = ops \o <<"save_best", "save_model", "save_predictions">>
              /\ wrote_preds' = TRUE
         ELSE UNCHANGED <<best_final_score, best_score_threshold, mode, files,
                          ops, wrote_preds>>
    /\ stall' = IF val_score > best_final_score THEN 0 ELSE stall + 1
    /\ pc' = "early"
    /\ UNCHANGED <<config, epoch, early_stop_epochs, do_scheduler,
                   all_predictions, lr, sched_steps, loop_epoch, summary_loss,
                   step, val_score, val_threshold, epochs_run, example_prefix,
                   alt_counter, start_epoch, fed, prev_best, prev_counter,
                   ref, loaded, runs, calls, exit>>
BestUpdate ==
    /\ pc = "improve"
    /\ IF Improved(val_score, best_final_score)
         THEN /\ best_final_score' = val_score
              /\ best_score_threshold' = val_threshold
              /\ mode' = "eval"
              /\ files' = [files EXCEPT
                             !.best = Checkpoint(val_threshold, val_score),
                             !.model = ModelSnapshot(val_threshold, val_score),
                             !.preds = [kind |-> "csv", rows |-> all_predictions]]
              /\ ops' = ops \o <<"save_best", "save_model", "save_predictions">>
              /\ wrote_preds' = TRUE
         ELSE UNCHANGED <<best_final_score, best_score_threshold, mode, files,
                          ops, wrote_preds>>
    /\ stall' = IF val_score > best_final_score THEN 0 ELSE stall + 1
    /\ pc' = "early"
    /\ UNCHANGED <<config, epoch, early_stop_epochs, do_scheduler,
                   all_predictions, lr, sched_steps, loop_epoch, summary_loss,
                   step, val_score, val_threshold, epochs_run, example_prefix,
                   alt_counter, start_epoch, fed, prev_best, prev_counter,
                   ref, loaded, runs, calls, exit>>

\* fit, lines 88-91, with early_stop, lines 183-187
EarlyStopAdvances ==
    /\ pc = "early"
    /\ prev_counter' = early_stop_epochs
    /\ early_stop_epochs' =
          EarlyStopCount(val_score, best_final_score, early_stop_epochs)
    /\ alt_counter' = IF val_score < prev_best THEN alt_counter + 1 ELSE 0
    /\ ops' = Append(ops, "early_stop")
    /\ IF ShouldStop(early_stop_epochs', config.EARLY_STOP_PATIENCE)
         THEN pc' = "idle" /\ exit' = "early"
         ELSE pc' = "advance" /\ UNCHANGED exit
    /\ epoch' = IF pc' = "idle" THEN epoch + 1 ELSE epoch
    /\ UNCHANGED <<config, best_final_score, best_score_threshold,
                   do_scheduler, all_predictions, lr, sched_steps, mode,
                   files, loop_epoch, summary_loss, step, val_score,
                   val_threshold, epochs_run, example_prefix, stall,
                   wrote_preds, start_epoch, fed, prev_best, ref, loaded,
                   runs, calls>>
EarlyStop ==
    /\ pc = "early"
    /\ prev_counter' = early_stop_epochs
    /\ early_stop_epochs' =
          EarlyStopCount(val_score, best_final_score, early_stop_epochs)
    /\ alt_counter' = IF val_score < prev_best THEN alt_counter + 1 ELSE 0
    /\ ops' = Append(ops, "early_stop")
    /\ IF ShouldStop(early_stop_epochs', config.EARLY_STOP_PATIENCE)
         THEN pc' = "idle" /\ exit' = "early"
         ELSE pc' = "advance" /\ UNCHANGED exit
    /\ UNCHANGED <<config, epoch, best_final_score, best_score_threshold,
                   do_scheduler, all_predictions, lr, sched_steps, mode,
                   files, loop_epoch, summary_loss, step, val_score,
                   val_threshold, epochs_run, example_prefix, stall,
                   wrote_preds, start_epoch, fed, prev_best, ref, loaded,
                   runs, calls>>

\* fit, lines 93-96; output.clear() touches no fitter state (CLEAR_OUTPUT is
\* taken to be positive)
AdvanceBeforeCheck ==
    /\ pc \in {"early", "advance"}
    /\ epoch' = epoch + 1
    /\ loop_epoch' = loop_epoch + 1
    /\ ops' = Append(ops, "advance")
    /\ pc' = "loop"
    /\ UNCHANGED <<config, best_final_score, best_score_threshold,
                   early_stop_epochs, do_scheduler, all_predictions, lr,
                   sched_steps, mode, files, summary_loss, step, val_score,
                   val_threshold, observers, fed, prev_best, prev_counter,
                   ref, loaded, runs, calls, exit>>
Advance ==
    /\ pc = "advance"
    /\ epoch' = epoch + 1
    /\ loop_epoch' = loop_epoch + 1
    /\ ops' = Append(ops, "advance")
    /\ pc' = "loop"
    /\ UNCHANGED <<config, best_final_score, best_score_threshold,
                   early_stop_epochs, do_scheduler, all_predictions, lr,
                   sched_steps, mode, files, summary_loss, step, val_score,
                   val_threshold, observers, fed, prev_best, prev_counter,
                   ref, loaded, runs, calls, exit>>

Next ==
    \/ FitEnter
    \/ FitExhausted
    \/ EpochBegin
    \/ TrainBegin
    \/ TrainStep
    \/ SaveLast
    \/ Validation
    \/ BestUpdate
    \/ EarlyStop
    \/ Advance

Spec == Init /\ [][Next]_vars

\* fit runs to its return once it is called: every statement of its body
\* and every collaborator call is taken to return
FitStep ==
    \/ FitExhausted
    \/ EpochBegin
    \/ TrainBegin
    \/ TrainStep
    \/ SaveLast
    \/ Validation
    \/ BestUpdate
    \/ EarlyStop
    \/ Advance

SpecLive == Init /\ [][Next]_vars /\ WF_vars(FitStep)

\* Runs that may be interrupted and resumed from a checkpoint
ResumeConfigs == {c \in Configs : c.WARMUP_EPOCHS = 2}

InitResume == Init /\ config \in ResumeConfigs

NextResume ==
    \/ Next
    \/ Construct
    \/ \E path \in {"last", "best"} : Load(path)
    \/ LoadSnapshot("model")

SpecResume == InitResume /\ [][NextResume]_vars

\* ---------------------------------------------------------------- failures
\* fit, train_one_epoch, validation, save, save_model and save_predictions
\* hold no try/except: an exception raised by a collaborator leaves fit at
\* once, with whatever the statements before it have already done.

\* train_one_epoch, lines 120-141: a batch raises (forward, backward,
\* optimizer or scheduler step)
FailTrainStepAdvances ==
    /\ pc = "batch"
    /\ step < Len(TrainBatchSizes)
    /\ summary_loss' = NoMeter
    /\ step' = 0
    /\ fed' = <<>>
    /\ epoch' = epoch + 1
    /\ pc' = "idle"
    /\ exit' = "error"
    /\ UNCHANGED <<config, best_final_score, best_score_threshold,
                   early_stop_epochs, do_scheduler, all_predictions, lr,
                   sched_steps, mode, files, loop_epoch, val_score,
                   val_threshold, observers, ops, prev_best, prev_counter,
                   ref, loaded, runs, calls>>
FailTrainStep ==
    /\ pc = "batch"
    /\ step < Len(TrainBatchSizes)
    /\ summary_loss' = NoMeter
    /\ step' = 0
    /\ fed' = <<>>
    /\ pc' = "idle"
    /\ exit' = "error"
    /\ UNCHANGED <<config, epoch, best_final_score, best_score_threshold,
                   early_stop_epochs, do_scheduler, all_predictions, lr,
                   sched_steps, mode, files, loop_epoch, val_score,
                   val_threshold, observers, ops, prev_best, prev_counter,
                   ref, loaded, runs, calls>>

\* save, lines 146-154, called at fit line 73: torch.save raises after
\* model.eval(); the file is left as it was
FailSaveLast ==
    /\ pc = "batch"
    /\ step = Len(TrainBatchSizes)
    /\ mode' = "eval"
    /\ summary_loss' = NoMeter
    /\ step' = 0
    /\ fed' = <<>>
    /\ pc' = "idle"
    /\ exit' = "error"
    /\ UNCHANGED <<config, epoch, best_final_score, best_score_threshold,
                   early_stop_epochs, do_scheduler, all_predictions, lr,
                   sched_steps, files, loop_epoch, val_score, val_threshold,
                   observers, ops, prev_best, prev_counter, ref, loaded,
                   runs, calls>>

\* validation, lines 99-111: the model, inference or evaluate raises after
\* done batches have been accumulated; fit's locals are not assigned
FailValidation ==
    /\ pc = "validate"
    /\ mode' = "eval"
    /\ \E done \in 0..NumValBatches :
          all_predictions' = SubSeq(ValidationRows(-1), 1, done)
    /\ pc' = "idle"
    /\ exit' = "error"
    /\ UNCHANGED <<config, epoch, best_final_score, best_score_threshold,
                   early_stop_epochs, do_scheduler, lr, sched_steps, files,
                   loop_epoch, summary_loss, step, val_score, val_threshold,
                   observers, ops, fed, prev_best, prev_counter, ref, loaded,
                   runs, calls>>

\* fit, lines 80-86: one of the three writes of an improving epoch raises,
\* after the best score and threshold were updated and the writes before it
\* were done
FailBestWrite ==
    /\ pc = "improve"
    /\ Improved(val_score, best_final_score)
    /\ best_final_score' = val_score
    /\ best_score_threshold' = val_threshold
    /\ mode' = "eval"
    /\ \E done \in 0..2 :
          /\ files' = [files EXCEPT
                !.best = IF done >= 1
                           THEN Checkpoint(val_threshold, val_score) ELSE @,
                !.model = IF done >= 2
                            THEN ModelSnapshot(val_threshold, val_score) ELSE @]
          /\ ops' = ops \o SubSeq(<<"save_best", "save_model">>, 1, done)
    /\ pc' = "idle"
    /\ exit' = "error"
    /\ UNCHANGED <<config, epoch, early_stop_epochs, do_scheduler,
                   all_predictions, lr, sched_steps, loop_epoch, summary_loss,
                   step, val_score, val_threshold, observers, fed, prev_best,
                   prev_counter, ref, loaded, runs, calls>>

NextFail ==
    \/ Next
    \/ FailTrainStep
    \/ FailSaveLast
    \/ FailValidation
    \/ FailBestWrite

\* Runs in which a collaborator may fail
FailConfigs ==
    {[c EXCEPT !.MAX_EPOCHS = MaxEpochs - 2] :
        c \in {d \in Configs : /\ d.WARMUP_EPOCHS = 2
                                /\ d.EARLY_STOP_PATIENCE = MaxPatience}}

InitFail == InitFrom(FailConfigs)

SpecFail == InitFail /\ [][NextFail]_vars

\* ------------------------------------------------------------- properties
BestWrites == <<"save_best", "save_model", "save_predictions">>

InOps(op) == \E i \in 1..Len(ops) : ops[i] = op

\* The best score as it stands when early_stop compares: the score of the
\* epoch if it exceeded the best held before validation, else that best
BestAtComparison == IF val_score > prev_best THEN val_score ELSE prev_best

\* C1: in every epoch, early_stop sets the counter to zero exactly when the
\* epoch's validation score is not less than the best score as updated in
\* the same iteration, and otherwise adds exactly one to it.
C1_EarlyStopCounter ==
    [][pc = "early" =>
          /\ best_final_score = BestAtComparison
          /\ early_stop_epochs' =
                IF val_score >= BestAtComparison
                  THEN 0
                  ELSE early_stop_epochs + 1]_vars

\* An epoch whose score equals the best reset a counter that had grown
C1_Witness ==
    /\ pc = "advance"
    /\ val_score = prev_best
    /\ prev_counter > 0
    /\ early_stop_epochs = 0

\* C2: the loop stops exactly when the counter exceeds the patience: the
\* early-stop check ends fit if and only if the updated counter is above
\* the patience, nothing runs after the stop, and fit never goes on to a
\* next epoch with the counter above the patience.  With patience 1 the
\* scores 0.1, 0.3, 0.2, 0.25 of a fresh fitter stop fit after the 4th
\* epoch and not before.
C2_StopExactlyAbovePatience ==
    [][/\ pc = "early" =>
            IF early_stop_epochs' > config.EARLY_STOP_PATIENCE
              THEN pc' = "idle" /\ exit' = "early"
              ELSE pc' = "advance" /\ exit' = exit
       /\ pc' = "advance" => early_stop_epochs' <= config.EARLY_STOP_PATIENCE
       /\ (pc' = "idle" /\ exit' = "early") =>
             /\ early_stop_epochs' > config.EARLY_STOP_PATIENCE
             /\ epoch' = loop_epoch'
       /\ (pc = "idle" /\ pc' # "idle") => pc' = "loop" /\ calls' = calls + 1
       /\ (config.EARLY_STOP_PATIENCE = 1 /\ example_prefix' >= 1) =>
             IF example_prefix' = Len(ExampleScores) /\ pc' \notin {"improve", "early"}
               THEN pc' = "idle" /\ exit' = "early" /\ loop_epoch' = 3
               ELSE pc' # "idle" /\ exit' # "early"]_vars

\* The example run has stopped after its 4th epoch
C2_Witness ==
    /\ config.EARLY_STOP_PATIENCE = 1
    /\ example_prefix = Len(ExampleScores)
    /\ pc = "idle"
    /\ exit = "early"
    /\ loop_epoch = 3

\* C3: during fit the best score never decreases; the best checkpoint, the
\* best-model snapshot and the predictions export are written in an epoch if
\* and only if its validation score is strictly above the best score held
\* before its validation; best score and threshold change in exactly those
\* epochs (a score equal to the best writes nothing).
C3_BestOnlyOnImprovement ==
    [][/\ best_final_score' >= best_final_score
       /\ IF pc = "improve" /\ val_score > prev_best
            THEN /\ best_final_score' = val_score
                 /\ best_score_threshold' = val_threshold
                 /\ ops' = ops \o BestWrites
                 /\ files'.best.kind = "full"
                 /\ files'.best.best_final_score = val_score
                 /\ files'.best.best_score_threshold = val_threshold
                 /\ files'.model.kind = "model"
                 /\ files'.model.best_final_score = val_score
                 /\ files'.model.best_score_threshold = val_threshold
                 /\ files'.preds.kind = "csv"
                 /\ files'.preds.rows = all_predictions
            ELSE /\ UNCHANGED <<best_final_score, best_score_threshold>>
                 /\ files'.best = files.best
                 /\ files'.model = files.model
                 /\ files'.preds = files.preds
                 /\ \A i \in 1..Len(BestWrites) :
                       ~ \E j \in (Len(ops) + 1)..Len(ops') : ops'[j] = BestWrites[i]]_vars

\* An epoch whose score equals a best above the initial one wrote nothing
C3_Witness ==
    /\ pc = "early"
    /\ val_score = prev_best
    /\ prev_best > InitBestScore
    /\ ~ InOps("save_best")
    /\ files.best.best_final_score = val_score

\* C4: in every epoch fit processes, of a fitter started at epoch 0 or
\* resumed by load, a last checkpoint is written after the training pass,
\* and its epoch field is the index of the epoch just trained.
C4_LastCheckpointEpoch ==
    /\ pc \in {"validate", "improve", "early", "advance"} =>
          /\ InOps("save_last")
          /\ files.last.kind = "full"
          /\ files.last.epoch = loop_epoch
    /\ (pc = "idle" /\ exit = "early") =>
          /\ files.last.kind = "full"
          /\ files.last.epoch = loop_epoch
    /\ (pc = "loop" /\ epochs_run > 0) =>
          /\ files.last.kind = "full"
          /\ files.last.epoch = loop_epoch - 1

\* A fitter resumed from the best checkpoint has written its own last
\* checkpoint for the first epoch it trained
C4_Witness ==
    /\ runs = 2
    /\ loaded.kind = "best"
    /\ pc = "validate"
    /\ epochs_run = 0
    /\ loop_epoch = loaded.epoch + 1
    /\ files.last.epoch = loop_epoch

\* C5: after load of a saved checkpoint the fitter holds the checkpoint's
\* best score and threshold and its epoch counter is the saved epoch plus
\* one (the epoch the interrupted run would have run next); the following
\* fit starts at that epoch and never runs the saved epoch again.
C5_LoadResumesAfterSavedEpoch ==
    /\ (loaded.kind # "none" /\ calls = 0) =>
          /\ files[loaded.kind] = [loaded EXCEPT !.kind = "full"]
          /\ best_final_score = loaded.best_final_score
          /\ best_score_threshold = loaded.best_score_threshold
          /\ epoch = loaded.epoch + 1
          /\ (ref.kind = "run" /\ loaded.kind = "last") => epoch = ref.epoch
    /\ (loaded.kind # "none" /\ calls >= 1) =>
          /\ loop_epoch >= loaded.epoch + 1
          /\ epoch >= loaded.epoch + 1
          /\ (calls = 1 /\ pc # "idle" /\ epochs_run = 0) =>
                loop_epoch = loaded.epoch + 1
          /\ (calls = 1 /\ pc \in {"improve", "early", "advance"}
                /\ epochs_run = 1) =>
                loop_epoch = loaded.epoch + 1

\* A fitter that loaded the last checkpoint trains the epoch after the
\* saved one with the restored best score
C5_Witness ==
    /\ loaded.kind = "last"
    /\ calls = 1
    /\ pc = "train"
    /\ epochs_run = 0
    /\ loop_epoch = loaded.epoch + 1
    /\ loaded.best_final_score > InitBestScore
    /\ best_final_score = loaded.best_final_score
    /\ best_score_threshold = loaded.best_score_threshold

\* C6: a fresh fitter that loads the last checkpoint of a run interrupted
\* after epoch e starts epoch e+1 with the epoch counter, best score, best
\* threshold and early-stop counter the interrupted run had there.
C6_ExactResumption ==
    (ref.kind = "run" /\ loaded.kind = "last" /\ pc = "loop" /\ calls = 1) =>
        /\ epoch = ref.epoch
        /\ best_final_score = ref.best_final_score
        /\ best_score_threshold = ref.best_score_threshold
        /\ early_stop_epochs = ref.early_stop_epochs

\* The warmup learning rate of epoch e, ((e+1)/warmup_length) * base_lr
\* clipped to at most base_lr, as a pair <<numerator, denominator>>
ClippedWarmupLr(e, cfg) ==
    LET n == (e + 1) * cfg.BASE_LR[1]
        d == cfg.WARMUP_EPOCHS * cfg.BASE_LR[2]
    IN IF n * cfg.BASE_LR[2] <= cfg.BASE_LR[1] * d THEN <<n, d>> ELSE cfg.BASE_LR

SameRat(a, b) == a[1] * b[2] = b[1] * a[2]

\* C7: in every epoch e below the warmup length each parameter group's
\* learning rate is ((e+1)/warmup_length) * base_lr, clipped to at most
\* base_lr, from the start of the epoch to its end; in an epoch at or above
\* the warmup length fit leaves the learning rate as it found it.  With
\* warmup length 5 and base_lr 0.01, epochs 0, 1 and 4 run at 0.002, 0.004
\* and 0.01.
C7_WarmupLearningRate ==
    [][/\ (pc' \in {"train", "batch", "validate", "improve", "early", "advance"}
            /\ loop_epoch' < config.WARMUP_EPOCHS) =>
             \A g \in 1..NumParamGroups :
                /\ SameRat(lr'[g], ClippedWarmupLr(loop_epoch', config))
                /\ (config.WARMUP_EPOCHS = 5 /\ config.BASE_LR = <<1, 100>>) =>
                      /\ loop_epoch' = 0 => lr'[g] = <<1, 500>>
                      /\ loop_epoch' = 1 => lr'[g] = <<1, 250>>
                      /\ loop_epoch' = 4 => lr'[g] = <<1, 100>>
       /\ (pc = "loop" /\ loop_epoch >= config.WARMUP_EPOCHS) => lr' = lr]_vars

\* The second epoch of a warmup of 5 has run to its end at 0.004
C7_Witness ==
    /\ config.WARMUP_EPOCHS = 5
    /\ config.BASE_LR = <<1, 100>>
    /\ loop_epoch = 1
    /\ pc = "advance"
    /\ do_scheduler = FALSE
    /\ \A g \in 1..NumParamGroups : lr[g] = <<1, 250>>

\* The operations of one epoch, in order
EpochOps(improved) ==
    <<"lr", "train", "save_last", "validation">>
       \o (IF improved THEN BestWrites ELSE <<>>)
       \o <<"early_stop", "advance">>

IsPrefix(p, q) == Len(p) <= Len(q) /\ SubSeq(q, 1, Len(p)) = p

\* C8: within an epoch the operations happen in the order warmup
\* adjustment, training pass, last checkpoint, validation, best writes (only
\* on improvement), early-stop update and check, epoch counter plus one,
\* each at most once; training of the next epoch starts only after the
\* early-stop check of this one.
C8_EpochOrder ==
    [][/\ \E improved \in BOOLEAN : IsPrefix(ops', EpochOps(improved))
       /\ (pc' = "train") => ops' = <<"lr">>
       /\ (pc' = "batch") => ops' = <<"lr", "train">>
       /\ (pc' = "validate") => ops' = <<"lr", "train", "save_last">>
       /\ (pc' = "improve") => ops' = <<"lr", "train", "save_last", "validation">>
       /\ (pc' = "advance") =>
             ops' = SubSeq(EpochOps(val_score' > prev_best'), 1,
                           Len(EpochOps(val_score' > prev_best')) - 1)
       /\ (pc' = "loop" /\ epochs_run' > 0) =>
             ops' = EpochOps(val_score' > prev_best')
       /\ (pc = "loop" /\ pc' = "train") =>
             (epochs_run = 0 \/ ops = EpochOps(val_score > prev_best))
       /\ (pc = "advance") =>
             /\ epoch' = epoch + 1
             /\ loop_epoch' = loop_epoch + 1
       /\ (pc # "advance") =>
             /\ epoch' = epoch
             /\ loop_epoch' = loop_epoch \/ (pc = "idle" /\ loop_epoch' = epoch)]_vars

\* An improving epoch has run all its operations
C8_Witness ==
    /\ pc = "loop"
    /\ epochs_run > 1
    /\ ops = EpochOps(TRUE)

\* C9: if more than `patience` consecutive epochs each fail to exceed the
\* best score strictly, fit stops at the end of that run of epochs and does
\* not go on to a later epoch.
C9_StopsAfterStall ==
    pc = "advance" => stall <= config.EARLY_STOP_PATIENCE

RECURSIVE WeightedSum(_)
WeightedSum(pairs) ==
    IF pairs = <<>> THEN 0
    ELSE pairs[1][1] * pairs[1][2] + WeightedSum(Tail(pairs))

RECURSIVE TotalSize(_)
TotalSize(pairs) ==
    IF pairs = <<>> THEN 0 ELSE pairs[1][2] + TotalSize(Tail(pairs))

\* C10: during and at the end of a training pass the loss meter holds the
\* batch-size-weighted mean of exactly the losses of the batches of this
\* pass, one update per batch; it is empty when the pass starts.
C10_WeightedMeanOfThisPass ==
    pc = "batch" =>
        /\ Len(fed) = step
        /\ \A i \in 1..Len(fed) : fed[i][2] = TrainBatchSizes[i]
        /\ summary_loss.sum = WeightedSum(fed)
        /\ summary_loss.count = TotalSize(fed)
        /\ summary_loss.count > 0 =>
              summary_loss.avg[1] * TotalSize(fed)
                 = WeightedSum(fed) * summary_loss.avg[2]
        /\ step = 0 => summary_loss = NoMeter

\* A second epoch's pass ends with the mean of its own two batches
C10_Witness ==
    /\ pc = "batch"
    /\ epochs_run > 0
    /\ step = Len(TrainBatchSizes)
    /\ fed = <<<<1, 2>>, <<2, 1>>>>
    /\ summary_loss.avg = <<4, 3>>

\* C11: a collaborator call that fails in epoch e ends fit at once: fit
\* returns with the error, nothing of the epoch runs after the failing
\* call, the caller gets control back (the only thing that can follow is a
\* new call of fit), and the epoch counter stays at e.
C11_FailurePropagates ==
    [][/\ (exit' = "error" /\ pc # "idle") =>
             /\ pc \in {"batch", "validate", "improve"}
             /\ pc' = "idle"
             /\ epoch = loop_epoch
             /\ epoch' = epoch
             /\ loop_epoch' = loop_epoch
             /\ early_stop_epochs' = early_stop_epochs
             /\ files'.last = files.last
             /\ files'.preds = files.preds
             /\ IsPrefix(ops, ops') /\ Len(ops') <= Len(ops) + 2
             /\ ~ \E i \in 1..Len(ops') :
                    ops'[i] \in {"early_stop", "advance", "save_predictions"}
       /\ (pc = "idle" /\ exit = "error") =>
             /\ epoch = loop_epoch
             /\ pc' = "loop" /\ calls' = calls + 1 /\ loop_epoch' = epoch]_vars

\* The export of an improving second epoch failed after the best checkpoint
\* was written; the epoch counter still names that epoch
C11_Witness ==
    /\ pc = "idle"
    /\ exit = "error"
    /\ epoch = 1
    /\ loop_epoch = 1
    /\ InOps("save_best")
    /\ files.best.epoch = 1
    /\ files.preds.kind = "csv"

\* C12: a training batch steps the learning-rate schedule exactly once if
\* the epoch index is at or above the warmup length and not at all if it is
\* below; nothing else in fit steps it; the flag a training pass reads is
\* the one fit set for that epoch, also in the first epoch after a load.
C12_SchedulerStepsAfterWarmup ==
    [][/\ (pc = "batch" /\ step' = step + 1) =>
             sched_steps' = sched_steps
                + (IF loop_epoch >= config.WARMUP_EPOCHS THEN 1 ELSE 0)
       /\ (pc = "batch" /\ step' # step + 1 /\ runs' = runs) =>
             sched_steps' = sched_steps
       /\ (pc \notin {"batch", "idle"} /\ pc' # "idle") =>
             sched_steps' = sched_steps
       /\ (pc' = "batch") =>
             do_scheduler' = (loop_epoch' >= config.WARMUP_EPOCHS)]_vars

\* A fitter that loaded the checkpoint of epoch 0 has trained epoch 1, a
\* warmup epoch, without stepping the schedule
C12_Witness ==
    /\ loaded.kind = "last"
    /\ loaded.epoch = 0
    /\ calls = 1
    /\ epochs_run = 0
    /\ pc = "batch"
    /\ step = Len(TrainBatchSizes)
    /\ loop_epoch < config.WARMUP_EPOCHS
    /\ ~ do_scheduler
    /\ sched_steps = loaded.scheduler_state_dict

\* fit has just finished an epoch
AfterEpoch ==
    \/ pc = "loop" /\ epochs_run > 0
    \/ pc = "idle" /\ exit = "early"

\* The accumulated predictions are those of the validation pass just run
\* and of no other
OnlyThisPass ==
    pc = "improve" =>
        /\ Len(all_predictions) = NumValBatches
        /\ \A b \in 1..NumValBatches :
              all_predictions[b] =
                 [epoch |-> loop_epoch, batch |-> b, score |-> val_score]

ExportIsOfBestPass ==
    /\ files.preds.kind = "csv"
    /\ Len(files.preds.rows) = NumValBatches
    /\ \A b \in 1..NumValBatches :
          /\ files.preds.rows[b].batch = b
          /\ files.preds.rows[b].score = best_final_score

C14_ModesPerPhase ==
    [][/\ (files'.last # files.last \/ files'.best # files.best
                                     \/ files'.model # files.model) =>
             mode' = "eval"
       /\ (pc = "batch" /\ step' = step + 1) =>
             mode = "train" /\ mode' = "train"
       /\ (pc = "validate" /\ pc' = "improve") =>
             mode' = "eval"]_vars

\* A training step of a later epoch has run in training mode although the
\* saves of the epoch before left the model in evaluation mode
C14_Witness ==
    /\ pc = "batch"
    /\ step > 0
    /\ epochs_run > 0
    /\ files.last.kind = "full"
    /\ files.model.kind = "model"
    /\ mode = "train"

\* C15: after every epoch the early-stop counter, which early_stop computes
\* against the best score as already updated in the iteration, equals the
\* counter computed against the best score held before the epoch's
\* validation, so both variants stop at the same epoch.
C15_SameCounterEitherBest ==
    /\ alt_counter = early_stop_epochs
    /\ (pc = "idle" /\ exit = "early") =>
          ShouldStop(alt_counter, config.EARLY_STOP_PATIENCE)
    /\ pc = "advance" =>
          ~ ShouldStop(alt_counter, config.EARLY_STOP_PATIENCE)

\* An improving epoch after a stalled one: the updated best differs from the
\* best held before the epoch, and both counters were reset
C15_Witness ==
    /\ pc = "advance"
    /\ prev_counter > 0
    /\ best_final_score = val_score
    /\ prev_best < best_final_score
    /\ early_stop_epochs = 0
    /\ alt_counter = 0

\* C16: load applied to the snapshot written by save_model never completes:
\* it raises, and the failed load leaves the epoch counter, the best score
\* and the best threshold as they were.
C16_SnapshotNotResumable ==
    [][/\ loaded'.kind # "model"
       /\ (exit # "load_error" /\ exit' = "load_error") =>
             /\ pc = "idle" /\ pc' = "idle"
             /\ files.model.kind = "model"
             /\ epoch' = epoch
             /\ best_final_score' = best_final_score
             /\ best_score_threshold' = best_score_threshold
             /\ loaded' = loaded]_vars

\* A new fitter has tried to load the snapshot of an earlier run, which
\* holds a better score than its own, and still holds its initial values
C16_Witness ==
    /\ pc = "idle"
    /\ exit = "load_error"
    /\ loaded = NoFile
    /\ files.model.kind = "model"
    /\ files.model.best_final_score > best_final_score
    /\ files.model.best_score_threshold # best_score_threshold
    /\ epoch = 0
    /\ files.last.epoch > 0

InFit == pc # "idle"

FitterUnchanged ==
    UNCHANGED <<epoch, best_final_score, best_score_threshold,
                early_stop_epochs, do_scheduler, all_predictions, lr,
                sched_steps, mode, files>>

\* C17: fit always returns; it takes the epoch indices from the counter it
\* was entered with up to MAX_EPOCHS - 1 in increasing order, each once, so
\* it runs at most MAX_EPOCHS - start epochs; the counter never decreases
\* and equals the loop index all through an epoch; entered with the counter
\* at MAX_EPOCHS or above, fit trains, validates and saves nothing and
\* changes no field of the fitter.
C17_FitTerminates ==
    /\ [](InFit =>
            /\ epoch = loop_epoch
            /\ start_epoch <= loop_epoch
            /\ epochs_run = loop_epoch - start_epoch
                  + (IF pc \in {"improve", "early", "advance"} THEN 1 ELSE 0)
            /\ pc # "loop" => loop_epoch < config.MAX_EPOCHS)
    /\ [](start_epoch <= config.MAX_EPOCHS =>
            epochs_run <= config.MAX_EPOCHS - start_epoch)
    /\ [](start_epoch >= config.MAX_EPOCHS => epochs_run = 0)
    /\ [][/\ InFit =>
                /\ epoch' >= epoch
                /\ loop_epoch' \in {loop_epoch, loop_epoch + 1}
          /\ (~ InFit /\ InFit') =>
                /\ loop_epoch' = epoch
                /\ FitterUnchanged
          /\ (InFit /\ start_epoch >= config.MAX_EPOCHS) =>
                /\ pc = "loop" /\ pc' = "idle"
                /\ FitterUnchanged]_vars
    /\ InFit ~> ~ InFit

\* A second call, entered with the counter at MAX_EPOCHS, has returned
\* without running an epoch
C17_Witness ==
    /\ calls = 2
    /\ pc = "idle"
    /\ exit = "exhausted"
    /\ start_epoch = config.MAX_EPOCHS
    /\ epoch = config.MAX_EPOCHS
    /\ epochs_run = 0

\* C18: after a return by early stopping at epoch e the counter is e; after
\* a return by exhaustion it is MAX_EPOCHS; a call of fit that follows an
\* early stop trains epoch e, the one the last checkpoint is of, again.
C18_CounterAfterReturn ==
    /\ (pc = "idle" /\ exit = "early") =>
          /\ epoch = loop_epoch
          /\ epoch < config.MAX_EPOCHS
          /\ files.last.epoch = epoch
    /\ (pc = "idle" /\ exit = "exhausted") => epoch = config.MAX_EPOCHS
    /\ (calls >= 2 /\ epochs_run = 0 /\ pc \in {"train", "batch"}) =>
          /\ loop_epoch = start_epoch
          /\ loop_epoch = files.last.epoch

\* The second call is training again the epoch at which the first stopped
C18_Witness ==
    /\ calls = 2
    /\ pc = "batch"
    /\ step > 0
    /\ epochs_run = 0
    /\ loop_epoch > 0
    /\ loop_epoch = files.last.epoch
    /\ early_stop_epochs > config.EARLY_STOP_PATIENCE

SavedBest(o) == \E i \in 1..Len(o) : o[i] = "save_best"

\* C19: the last checkpoint of epoch e is written before the epoch's
\* validation with the best score and threshold held since the end of epoch
\* e - 1 (the initial or the loaded ones in the first epoch of a run) and is
\* not touched by the rest of the epoch; the best checkpoint written in
\* epoch e stores the epoch's score and threshold and epoch field e.
C19_CheckpointContents ==
    [][/\ (pc = "batch" /\ pc' = "validate") =>
             /\ files'.last.epoch = loop_epoch
             /\ files'.last.best_final_score = best_final_score
             /\ files'.last.best_score_threshold = best_score_threshold
             /\ best_final_score = prev_best
             /\ (calls = 1 /\ epochs_run = 0) =>
                   /\ files'.last.best_final_score =
                         IF loaded = NoFile THEN InitBestScore
                                            ELSE loaded.best_final_score
                   /\ files'.last.best_score_threshold =
                         IF loaded = NoFile THEN InitBestThreshold
                                            ELSE loaded.best_score_threshold
       /\ (pc \in {"loop", "train", "batch"} /\ runs' = runs) =>
             /\ best_final_score' = best_final_score
             /\ best_score_threshold' = best_score_threshold
       /\ (pc \in {"validate", "improve", "early", "advance"}
              /\ runs' = runs) =>
             files'.last = files.last
       /\ (pc = "improve" /\ SavedBest(ops')) =>
             /\ files'.best.kind = "full"
             /\ files'.best.epoch = loop_epoch
             /\ files'.best.best_final_score = val_score
             /\ files'.best.best_score_threshold = val_threshold
             /\ files'.last.epoch = loop_epoch
             /\ files'.last.best_final_score < val_score]_vars

\* In a later epoch that improved, the two checkpoints of the epoch differ:
\* the last one holds the best score of the epoch before
C19_Witness ==
    /\ pc = "early"
    /\ InOps("save_best")
    /\ loop_epoch > 0
    /\ files.last.epoch = loop_epoch
    /\ files.best.epoch = loop_epoch
    /\ files.last.best_final_score > InitBestScore
    /\ files.last.best_final_score < files.best.best_final_score
    /\ files.last.best_score_threshold # files.best.best_score_threshold

\* C20: in the single fit call of a freshly constructed Fitter the
\* early-stop counter stays within 0 .. patience + 1 and reaches
\* patience + 1 only in the state in which fit has returned by early
\* stopping.
C20_CounterBound ==
    calls <= 1 =>
        /\ early_stop_epochs >= 0
        /\ early_stop_epochs <= config.EARLY_STOP_PATIENCE + 1
        /\ early_stop_epochs = config.EARLY_STOP_PATIENCE + 1 =>
              pc = "idle" /\ exit = "early"

\* The single call has stopped early with the counter at patience + 1
C20_Witness ==
    /\ calls = 1
    /\ pc = "idle"
    /\ exit = "early"
    /\ config.EARLY_STOP_PATIENCE = MaxPatience
    /\ early_stop_epochs = MaxPatience + 1
    /\ epochs_run > MaxPatience + 1

====
